---- MODULE Spec2Model ----
(***************************************************************************)
(* Model of YouTubeWorker (src/main.py): authenticate, run_analysis,       *)
(* _get_all_video_ids and create_playlist, together with the remote API    *)
(* and the two files (token.json, client_secrets.json) they talk to.       *)
(* Every remote call is one step that either succeeds or raises; the       *)
(* signals a run emits and the remote calls it issues are logged in order. *)
(***************************************************************************)
EXTENDS Integers, Sequences, FiniteSets, TLC

VARIABLES
    uploads,          \* server: the uploads playlist, a sequence of video ids
    tagsOf,           \* server: video id -> snippet ([has_tags, tags])
    tokenFile,        \* token.json: [kind, valid, expired, refresh_token]
    secrets,          \* client_secrets.json exists
    credentials,      \* self.credentials of the running worker
    all_videos,       \* self.all_videos (shared with the playlist worker)
    task,             \* "none", "analysis" or "playlist"
    pc,               \* position of the running task
    video_ids,        \* local of run_analysis / _get_all_video_ids
    next_page_token,  \* local of _get_all_video_ids
    i,                \* loop index of the batch loop / the insertion loop
    all_tags_raw,     \* local of run_analysis
    tag,              \* argument of create_playlist
    videos_to_add,    \* local of create_playlist
    signals,          \* signals emitted by the current run, in order
    calls,            \* remote calls issued by the current run, in order
    tokenAtStart,     \* history: token.json as the last authenticate found it
    tasks,            \* window: the tasks started so far, [kind, st]
    queue,            \* window: signals posted to the window's thread, in order
    dialogs,          \* window: open modal dialogs, innermost last
    rows,             \* window: number of rows of tag_table
    selected,         \* window: the selected row of tag_table, 0 for none
    action_button,    \* window: action_button.isEnabled()
    playlist_card,    \* window: playlist_card.isEnabled()
    is_dark,          \* window: config['theme'] == 'dark'
    is_tall_layout    \* window: self.is_tall_layout

vars == <<uploads, tagsOf, tokenFile, secrets, credentials, all_videos, task,
          pc, video_ids, next_page_token, i, all_tags_raw, tag,
          videos_to_add, signals, calls, tokenAtStart,
          tasks, queue, dialogs, rows, selected, action_button, playlist_card,
          is_dark, is_tall_layout>>

server == <<uploads, tagsOf>>
files == <<tokenFile, secrets>>
window == <<tasks, queue, dialogs, rows, selected, action_button, playlist_card,
            is_dark, is_tall_layout>>

----------------------------------------------------------------------------
(* Bounds of the model *)

MaxVideos == 101      \* largest uploads playlist (videos without varied tags)
MaxTagged == 2        \* largest uploads playlist whose videos carry arbitrary tag lists
MaxStream == 4        \* most tags the videos of such a playlist carry together
TagStride == 40       \* distance between two tagged videos of a large channel

(* Program constants *)

PageSize == 50        \* maxResults=50
BatchSize == 50       \* range(0, len(video_ids), 50), video_ids[i:i+50]

----------------------------------------------------------------------------
(* Tags and str.lower() *)

Tags == {"Cats", "cats", "Dog", "dog", "vlog"}

\* str.lower() on the tags of the model
Lower(t) ==
    CASE t = "Cats" -> "cats"
      [] t = "cats" -> "cats"
      [] t = "Dog" -> "dog"
      [] t = "dog" -> "dog"
      [] OTHER -> t

RECURSIVE SeqsUpTo(_, _)
SeqsUpTo(S, n) ==
    IF n = 0 THEN {<<>>}
    ELSE LET shorter == SeqsUpTo(S, n - 1)
         IN shorter \cup {Append(s, x) : s \in {q \in shorter : Len(q) = n - 1}, x \in S}

\* the tag streams of the small channels
TagStreams == SeqsUpTo(Tags, MaxStream)

\* the ways to cut stream st into the tag lists of n videos
RECURSIVE Splits(_, _)
Splits(st, n) ==
    IF n = 0 THEN (IF st = <<>> THEN {<<>>} ELSE {})
    ELSE UNION {{<<SubSeq(st, 1, k)>> \o rest :
                    rest \in Splits(SubSeq(st, k + 1, Len(st)), n - 1)} : k \in 0..Len(st)}

Min(a, b) == IF a < b THEN a ELSE b
Max(a, b) == IF a > b THEN a ELSE b
CeilDiv(a, b) == (a + b - 1) \div b

RECURSIVE Reverse(_)
Reverse(s) == IF s = <<>> THEN <<>> ELSE Append(Reverse(Tail(s)), Head(s))

\* [f(x) for x in s]
MapLower(s) == [j \in 1..Len(s) |-> Lower(s[j])]

\* x in list
InList(x, s) == \E j \in 1..Len(s) : s[j] = x

----------------------------------------------------------------------------
(* Signals of YouTubeWorker and the log of remote calls *)

Progress(v) == [sig |-> "progress", val |-> v, msg |-> "", tags |-> <<>>]
Error(m) == [sig |-> "error", val |-> 0, msg |-> m, tags |-> <<>>]
TagsReady(t) == [sig |-> "tags_ready", val |-> 0, msg |-> "", tags |-> t]
PlaylistCreated(n) == [sig |-> "playlist_created", val |-> n, msg |-> "", tags |-> <<>>]
Finished == [sig |-> "finished", val |-> 0, msg |-> "", tags |-> <<>>]

\* a remote call, its argument and whether it succeeded or raised
Call(api, arg, ok) == [api |-> api, arg |-> arg, ok |-> ok]

\* the calls that go to the YouTube data API (the others go to the OAuth endpoints)
ApiNames == {"channels.list", "playlistItems.list", "videos.list",
             "playlists.insert", "playlistItems.insert"}

----------------------------------------------------------------------------
(* Credentials and the token file *)

NoCreds == [present |-> FALSE, valid |-> FALSE, expired |-> FALSE, refresh_token |-> FALSE]
Creds(v, e, r) == [present |-> TRUE, valid |-> v, expired |-> e, refresh_token |-> r]

AbsentFile == [kind |-> "absent", valid |-> FALSE, expired |-> FALSE, refresh_token |-> FALSE]
CorruptFile == [kind |-> "corrupt", valid |-> FALSE, expired |-> FALSE, refresh_token |-> FALSE]
TokenJson(c) == [kind |-> "token", valid |-> c.valid, expired |-> c.expired,
                 refresh_token |-> c.refresh_token]

\* contents token.json can have: absent, unparseable, a valid token, or an
\* expired one with or without a refresh token
TokenFiles ==
    {AbsentFile, CorruptFile, TokenJson(Creds(TRUE, FALSE, TRUE)),
     TokenJson(Creds(FALSE, TRUE, TRUE)), TokenJson(Creds(FALSE, TRUE, FALSE))}

\* os.path.exists(TOKEN_FILE)
TokenExists(file) == file.kind # "absent"

\* Credentials.from_authorized_user_file: the parsed credentials
FromAuthorizedUserFile(file) == Creds(file.valid, file.expired, file.refresh_token)

\* a variant of RefreshFailed that leaves the stale token file in place
RefreshFailedKeepsFile(file) ==
    [ret |-> "false", file |-> file, creds |-> NoCreds, set |-> FALSE,
     sigs |-> <<Error("Token refresh failed")>>, calls |-> <<Call("oauth.refresh", <<>>, FALSE)>>]

\* the except branch of the refresh: remove the file, emit, return False
RefreshFailed(file) ==
    [ret |-> "false", file |-> AbsentFile, creds |-> NoCreds, set |-> FALSE,
     sigs |-> <<Error("Token refresh failed")>>, calls |-> <<Call("oauth.refresh", <<>>, FALSE)>>]

\* a variant of Authenticate that does not look for client_secrets.json
AuthenticateNoSecretsCheck(file, hasSecrets, ok) ==
    IF TokenExists(file) /\ file.kind = "corrupt"
    THEN [ret |-> "raise", file |-> file, creds |-> NoCreds, set |-> FALSE,
          sigs |-> <<>>, calls |-> <<>>]
    ELSE
      LET creds == IF TokenExists(file) THEN FromAuthorizedUserFile(file) ELSE NoCreds
      IN IF ~creds.present \/ ~creds.valid
         THEN IF creds.present /\ creds.expired /\ creds.refresh_token
              THEN IF ok
                   THEN LET fresh == Creds(TRUE, FALSE, TRUE)
                        IN [ret |-> "true", file |-> TokenJson(fresh), creds |-> fresh,
                            set |-> TRUE, sigs |-> <<>>,
                            calls |-> <<Call("oauth.refresh", <<>>, TRUE)>>]
                   ELSE RefreshFailed(file)
              ELSE IF ok /\ hasSecrets
                   THEN LET fresh == Creds(TRUE, FALSE, TRUE)
                        IN [ret |-> "true", file |-> TokenJson(fresh), creds |-> fresh,
                            set |-> TRUE, sigs |-> <<>>,
                            calls |-> <<Call("oauth.flow", <<>>, TRUE)>>]
                   ELSE [ret |-> "raise", file |-> file, creds |-> NoCreds,
                         set |-> FALSE, sigs |-> <<>>,
                         calls |-> <<Call("oauth.flow", <<>>, FALSE)>>]
         ELSE [ret |-> "true", file |-> file, creds |-> creds, set |-> TRUE,
               sigs |-> <<>>, calls |-> <<>>]

\* YouTubeWorker.authenticate; ok is the outcome of the one exchange a call
\* can have with the OAuth endpoints, creds.refresh() or the interactive
\* flow (True: it returns, False: it raises).  ret is "true", "false" or
\* "raise" (an exception leaves authenticate); set tells whether
\* self.credentials was assigned, creds the value assigned.
Authenticate(file, hasSecrets, ok) ==
    IF TokenExists(file) /\ file.kind = "corrupt"
    THEN [ret |-> "raise", file |-> file, creds |-> NoCreds, set |-> FALSE,
          sigs |-> <<>>, calls |-> <<>>]
    ELSE
      LET creds == IF TokenExists(file) THEN FromAuthorizedUserFile(file) ELSE NoCreds
      IN IF ~creds.present \/ ~creds.valid
         THEN IF creds.present /\ creds.expired /\ creds.refresh_token
              THEN IF ok
                   THEN LET fresh == Creds(TRUE, FALSE, TRUE)
                        IN [ret |-> "true", file |-> TokenJson(fresh), creds |-> fresh,
                            set |-> TRUE, sigs |-> <<>>,
                            calls |-> <<Call("oauth.refresh", <<>>, TRUE)>>]
                   ELSE RefreshFailed(file)
              ELSE IF ~hasSecrets
                   THEN [ret |-> "false", file |-> file, creds |-> NoCreds, set |-> FALSE,
                         sigs |-> <<Error("CLIENT_SECRETS_MISSING")>>, calls |-> <<>>]
                   ELSE IF ok
                        THEN LET fresh == Creds(TRUE, FALSE, TRUE)
                             IN [ret |-> "true", file |-> TokenJson(fresh), creds |-> fresh,
                                 set |-> TRUE, sigs |-> <<>>,
                                 calls |-> <<Call("oauth.flow", <<>>, TRUE)>>]
                        ELSE [ret |-> "raise", file |-> file, creds |-> NoCreds,
                              set |-> FALSE, sigs |-> <<>>,
                              calls |-> <<Call("oauth.flow", <<>>, FALSE)>>]
         ELSE [ret |-> "true", file |-> file, creds |-> creds, set |-> TRUE,
               sigs |-> <<>>, calls |-> <<>>]

----------------------------------------------------------------------------
(* Tag aggregation of run_analysis *)

\* item['snippet'].get('tags', [])
SnippetTags(snippet) == IF snippet.has_tags THEN snippet.tags ELSE <<>>

\* Counter: one more occurrence of key k (keys keep their insertion order)
CounterAdd(c, k) ==
    IF \E j \in 1..Len(c) : c[j].key = k
    THEN [j \in 1..Len(c) |-> IF c[j].key = k
                              THEN [key |-> k, count |-> c[j].count + 1]
                              ELSE c[j]]
    ELSE Append(c, [key |-> k, count |-> 1])

\* Counter(iterable), as the sequence of its items()
RECURSIVE CounterOf(_)
CounterOf(s) ==
    IF s = <<>> THEN <<>>
    ELSE CounterAdd(CounterOf(SubSeq(s, 1, Len(s) - 1)), s[Len(s)])

\* d[k] = v
DictSet(d, k, v) == [x \in (DOMAIN d) \cup {k} |-> IF x = k THEN v ELSE d[x]]

\* d.get(k, default)
DictGet(d, k, default) == IF k \in DOMAIN d THEN d[k] ELSE default

\* {tag.lower(): tag for tag in s}: later entries of s overwrite earlier ones
RECURSIVE CasingDict(_)
CasingDict(s) ==
    IF s = <<>> THEN <<>>
    ELSE DictSet(CasingDict(SubSeq(s, 1, Len(s) - 1)), Lower(s[Len(s)]), s[Len(s)])

\* a variant of OriginalCasingMap that scans the stream front to back
OriginalCasingMapForward(raw) == CasingDict(raw)

\* original_casing_map = {tag.lower(): tag for tag in reversed(all_tags_raw)}
OriginalCasingMap(raw) == CasingDict(Reverse(raw))

\* tag_counts = Counter(tag.lower() for tag in all_tags_raw)
TagCounts(raw) == CounterOf(MapLower(raw))

\* processed_tags: (original_case, count) per item of tag_counts
ProcessedTags(raw) ==
    LET counts == TagCounts(raw)
        casing == OriginalCasingMap(raw)
    IN [j \in 1..Len(counts) |->
          [tag |-> DictGet(casing, counts[j].key, counts[j].key),
           count |-> counts[j].count]]

\* insert x behind every element whose count is <= x.count
RECURSIVE InsertAsc(_, _)
InsertAsc(s, x) ==
    IF s = <<>> THEN <<x>>
    ELSE IF Head(s).count <= x.count
         THEN <<Head(s)>> \o InsertAsc(Tail(s), x)
         ELSE <<x>> \o s

\* a stable ascending sort by count
RECURSIVE StableSortAsc(_)
StableSortAsc(s) ==
    IF s = <<>> THEN <<>>
    ELSE InsertAsc(StableSortAsc(SubSeq(s, 1, Len(s) - 1)), s[Len(s)])

\* a variant of SortedDesc that sorts ascending and reverses the result
SortedDescUnstable(s) == Reverse(StableSortAsc(s))

\* sorted(items, key=count, reverse=True): list.sort reverses the list, sorts
\* it stably in ascending order and reverses the result
SortedDesc(s) == Reverse(StableSortAsc(Reverse(s)))

\* sorted_tags
SortedTags(raw) == SortedDesc(ProcessedTags(raw))

\* the record run_analysis caches per item of a videos.list response
VideoRecord(item) == [id |-> item.id, tags |-> MapLower(SnippetTags(item.snippet))]

\* progress_val of the batch loop: 40 + int(((i + 50) / len(video_ids)) * 50)
\* (the float expression agrees with the integer one for every len < 400)
BatchProgress(idx, n) == 40 + ((idx + BatchSize) * 50) \div n

\* progress_val of the insertion loop: 20 + int(((i + 1) / len(videos_to_add)) * 80)
InsertProgress(idx, n) == 20 + ((idx + 1) * 80) \div n

\* a variant of VideosToAdd that compares the target tag as it was typed
RECURSIVE VideosToAddCaseSensitive(_, _)
VideosToAddCaseSensitive(videos, t) ==
    IF videos = <<>> THEN <<>>
    ELSE LET rest == VideosToAddCaseSensitive(Tail(videos), t)
         IN IF InList(t, Head(videos).tags)
            THEN <<Head(videos).id>> \o rest
            ELSE rest

\* a variant of VideosToAdd without the filter
VideosToAddAll(videos, t) == [j \in 1..Len(videos) |-> videos[j].id]

\* videos_to_add = [video['id'] for video in all_videos if tag.lower() in video['tags']]
RECURSIVE VideosToAdd(_, _)
VideosToAdd(videos, t) ==
    IF videos = <<>> THEN <<>>
    ELSE LET rest == VideosToAdd(Tail(videos), t)
         IN IF InList(Lower(t), Head(videos).tags)
            THEN <<Head(videos).id>> \o rest
            ELSE rest

----------------------------------------------------------------------------
(* The remote API *)

NoToken == 0          \* no nextPageToken in the response

\* playlistItems.list(maxResults=50, pageToken): the page that starts behind
\* the first `token` entries, and the token of the page after it, if any
PageItems(ups, token) == SubSeq(ups, token + 1, Min(token + PageSize, Len(ups)))
PageNextToken(ups, token) ==
    IF token + PageSize < Len(ups) THEN token + PageSize ELSE NoToken

\* videos.list(id=chunk_ids, part='snippet'): one item per requested id
VideosList(tagmap, chunk) ==
    [j \in 1..Len(chunk) |-> [id |-> chunk[j], snippet |-> tagmap[chunk[j]]]]

Snippet(tags) == [has_tags |-> TRUE, tags |-> tags]
NoTagsSnippet == [has_tags |-> FALSE, tags |-> <<>>]

\* a channel with few videos, whose tag lists are given
SmallChannel(lists) ==
    [uploads |-> [j \in 1..Len(lists) |-> j],
     tagsOf |-> [j \in 1..Len(lists) |-> Snippet(lists[j])]]

\* channels with many videos: every TagStride-th video is tagged, with
\* alternating spellings, the others have no tags entry; the last entry of
\* the uploads playlist may repeat the first video
LargeSnippet(j) ==
    IF j % TagStride # 1 THEN NoTagsSnippet
    ELSE IF (j \div TagStride) % 2 = 0 THEN Snippet(<<"Cats">>)
         ELSE Snippet(<<"cats", "Dog">>)

LargeChannels ==
    {[uploads |-> [j \in 1..n |-> IF dup /\ j = n /\ n > 1 THEN 1 ELSE j],
      tagsOf |-> [j \in 1..n |-> LargeSnippet(j)]] :
        n \in 0..MaxVideos, dup \in BOOLEAN}

----------------------------------------------------------------------------
(* The worker *)

\* the server holds channel ch
ChannelIs(ch) == uploads = ch.uploads /\ tagsOf = ch.tagsOf

\* the state after YouTubeWorker.__init__
WorkerInit ==
    /\ credentials = NoCreds
    /\ all_videos = <<>>
    /\ task = "none"
    /\ pc = "start"
    /\ video_ids = <<>>
    /\ next_page_token = NoToken
    /\ i = 0
    /\ all_tags_raw = <<>>
    /\ tag = ""
    /\ videos_to_add = <<>>
    /\ signals = <<>>
    /\ calls = <<>>
    /\ tokenAtStart = tokenFile

\* a task as the window sees it: st is "running" until the worker has emitted
\* its outcome, "outcome" until it has emitted finished, "emitted" until the
\* window has handled finished, "quit" until the thread has ended, then "over"
Task(kind, st) == [kind |-> kind, st |-> st]

\* the state after MainWindow.__init__ (lines 176-182): a light theme, a
\* height of 850, an empty table, and the analysis started
WindowInit ==
    /\ tasks = <<Task("analysis", "running")>>
    /\ queue = <<>>
    /\ dialogs = <<>>
    /\ rows = 0
    /\ selected = 0
    /\ action_button = FALSE
    /\ playlist_card = FALSE
    /\ is_dark = FALSE
    /\ is_tall_layout = FALSE

\* a new worker in front of a large channel, with any token.json
Init ==
    /\ \E ch \in LargeChannels : ChannelIs(ch)
    /\ tokenFile \in TokenFiles
    /\ secrets \in BOOLEAN
    /\ WorkerInit
    /\ WindowInit

\* the analysis specification: a new worker in front of a small channel with
\* arbitrary tag lists (every cut of every tag stream), a valid token.json
InitTagged ==
    /\ \E n \in 0..MaxTagged, st \in TagStreams :
         \E lists \in Splits(st, n) : ChannelIs(SmallChannel(lists))
    /\ tokenFile = TokenJson(Creds(TRUE, FALSE, TRUE))
    /\ secrets = TRUE
    /\ WorkerInit
    /\ WindowInit

\* a variant of Raised that swallows the exception
RaisedSilently(sigs, msg) == Append(sigs, Finished)

\* except Exception as e: self.error.emit(...); finally: self.finished.emit()
Raised(sigs, msg) == sigs \o <<Error(msg), Finished>>

\* a variant of ExtendIds that skips ids it already holds
ExtendIdsDedup(ids, items) ==
    ids \o SelectSeq(items, LAMBDA x : ~InList(x, ids))

\* video_ids.extend([... for item in res['items']])
ExtendIds(ids, items) == ids \o items

\* a variant of AfterAuthenticate that treats a False return like a raise
AfterAuthenticateReraise(a, worker, before, msg, next) ==
    /\ tokenFile' = a.file
    /\ tokenAtStart' = tokenFile
    /\ credentials' = IF a.set THEN a.creds ELSE worker
    /\ calls' = a.calls
    /\ signals' = IF a.ret = "true" THEN before \o a.sigs
                  ELSE Raised(before \o a.sigs, msg)
    /\ pc' = IF a.ret = "true" THEN next ELSE "done"

\* if not self.authenticate(): return -- and what follows a raise.  worker
\* is self.credentials before the call, before the signals emitted so far,
\* next the position behind a successful authentication
AfterAuthenticate(a, worker, before, msg, next) ==
    /\ tokenFile' = a.file
    /\ tokenAtStart' = tokenFile
    /\ credentials' = IF a.set THEN a.creds ELSE worker
    /\ calls' = a.calls
    /\ signals' = CASE a.ret = "true" -> before \o a.sigs
                    [] a.ret = "false" -> before \o a.sigs \o <<Finished>>
                    [] OTHER -> Raised(before \o a.sigs, msg)
    /\ pc' = IF a.ret = "true" THEN next ELSE "done"

\* run_analysis, lines 100-102: the thread starts, progress 0, authenticate
AnalysisAuthenticate ==
    /\ pc = "start"
    /\ task' = "analysis"
    /\ \E ok \in BOOLEAN :
         AfterAuthenticate(Authenticate(tokenFile, secrets, ok),
                           credentials, <<Progress(0)>>, "Analysis failed", "channels")
    /\ UNCHANGED window
    /\ UNCHANGED <<server, secrets, all_videos, video_ids, next_page_token, i,
                   all_tags_raw, tag, videos_to_add>>

\* a variant of FetchChannel that asks again when the call fails
FetchChannelRetry ==
    /\ task = "analysis" /\ pc = "channels"
    /\ \E ok \in BOOLEAN :
         /\ calls' = Append(calls, Call("channels.list", <<>>, ok))
         /\ IF ok
            THEN /\ video_ids' = <<>>
                 /\ next_page_token' = NoToken
                 /\ signals' = signals \o <<Progress(10), Progress(20)>>
                 /\ pc' = "pages"
            ELSE /\ Len(calls) < 2
                 /\ UNCHANGED <<signals, pc, video_ids, next_page_token>>
    /\ UNCHANGED window
    /\ UNCHANGED <<server, files, tokenAtStart, credentials, all_videos, task, i, all_tags_raw,
                   tag, videos_to_add>>

\* run_analysis, lines 103-107, and the head of _get_all_video_ids
FetchChannel ==
    /\ task = "analysis" /\ pc = "channels"
    /\ \E ok \in BOOLEAN :
         /\ calls' = Append(calls, Call("channels.list", <<>>, ok))
         /\ IF ok
            THEN /\ video_ids' = <<>>
                 /\ next_page_token' = NoToken
                 /\ signals' = signals \o <<Progress(10), Progress(20)>>
                 /\ pc' = "pages"
            ELSE /\ signals' = Raised(Append(signals, Progress(10)), "Analysis failed")
                 /\ pc' = "done"
                 /\ UNCHANGED <<video_ids, next_page_token>>
    /\ UNCHANGED window
    /\ UNCHANGED <<server, files, tokenAtStart, credentials, all_videos, task, i, all_tags_raw,
                   tag, videos_to_add>>

\* run_analysis, lines 119-130: aggregate, emit progress 100 and tags_ready
FinishAnalysis(sigs, raw) ==
    sigs \o <<Progress(100), TagsReady(SortedTags(raw)), Finished>>

\* one iteration of the loop of _get_all_video_ids; behind the last page
\* run_analysis resets its cache (lines 108-109) and, with no video at all,
\* skips the batch loop
FetchPage ==
    /\ task = "analysis" /\ pc = "pages"
    /\ \E ok \in BOOLEAN :
         /\ calls' = Append(calls, Call("playlistItems.list", <<next_page_token>>, ok))
         /\ IF ok
            THEN LET ids == ExtendIds(video_ids, PageItems(uploads, next_page_token))
                     token == PageNextToken(uploads, next_page_token)
                 IN /\ video_ids' = ids
                    /\ next_page_token' = token
                    /\ IF token # NoToken
                       THEN /\ pc' = "pages"
                            /\ UNCHANGED <<signals, all_videos, all_tags_raw, i>>
                       ELSE /\ all_tags_raw' = <<>>
                            /\ all_videos' = <<>>
                            /\ i' = 0
                            /\ IF Len(ids) = 0
                               THEN /\ signals' = FinishAnalysis(Append(signals, Progress(40)), <<>>)
                                    /\ pc' = "done"
                               ELSE /\ signals' = Append(signals, Progress(40))
                                    /\ pc' = "batches"
            ELSE /\ signals' = Raised(signals, "Analysis failed")
                 /\ pc' = "done"
                 /\ UNCHANGED <<video_ids, next_page_token, all_videos, all_tags_raw, i>>
    /\ UNCHANGED window
    /\ UNCHANGED <<server, files, tokenAtStart, credentials, task, tag, videos_to_add>>

\* a variant of Chunk whose slices overlap by one id
ChunkOverlapping(ids, idx) == SubSeq(ids, Max(idx, 1), Min(idx + BatchSize, Len(ids)))

\* video_ids[i:i+50]
Chunk(ids, idx) == SubSeq(ids, idx + 1, Min(idx + BatchSize, Len(ids)))

\* all_tags_raw.extend(tags) for every item of a response
RECURSIVE ExtendTags(_, _)
ExtendTags(raw, items) ==
    IF items = <<>> THEN raw
    ELSE ExtendTags(raw \o SnippetTags(Head(items).snippet), Tail(items))

\* self.all_videos.append(...) for every item of a response
AppendVideos(videos, items) ==
    videos \o [j \in 1..Len(items) |-> VideoRecord(items[j])]

\* one iteration of the batch loop (lines 110-117); behind the last batch
\* the aggregation (lines 119-130)
FetchBatch ==
    /\ task = "analysis" /\ pc = "batches"
    /\ LET chunk == Chunk(video_ids, i)
       IN \E ok \in BOOLEAN :
            /\ calls' = Append(calls, Call("videos.list", chunk, ok))
            /\ IF ok
                     THEN LET items == VideosList(tagsOf, chunk)
                              raw == ExtendTags(all_tags_raw, items)
                              sigs == Append(signals, Progress(BatchProgress(i, Len(video_ids))))
                          IN /\ all_tags_raw' = raw
                             /\ all_videos' = AppendVideos(all_videos, items)
                             /\ i' = i + BatchSize
                             /\ IF i + BatchSize < Len(video_ids)
                                THEN /\ signals' = sigs
                                     /\ pc' = "batches"
                                ELSE /\ signals' = FinishAnalysis(sigs, raw)
                                     /\ pc' = "done"
                     ELSE /\ signals' = Raised(signals, "Analysis failed")
                          /\ pc' = "done"
                          /\ UNCHANGED <<all_tags_raw, all_videos, i>>
    /\ UNCHANGED window
    /\ UNCHANGED <<server, files, tokenAtStart, credentials, task, video_ids, next_page_token,
                   tag, videos_to_add>>

\* start_playlist_creation (lines 336-338) hands create_playlist to a new
\* YouTubeWorker that shares all_videos; create_playlist, lines 134-137
PlaylistAuthenticate ==
    /\ pc = "done"
    /\ task' = "playlist"
    /\ \E t \in Tags : tag' = t
    /\ videos_to_add' = <<>>
    /\ i' = 0
    /\ LET worker == NoCreds
       IN IF ~worker.present \/ ~worker.valid
          THEN \E ok \in BOOLEAN :
                 AfterAuthenticate(Authenticate(tokenFile, secrets, ok),
                                   worker, <<Progress(0)>>, "Failed to create playlist",
                                   "create")
          ELSE /\ credentials' = worker
               /\ signals' = <<>>
               /\ calls' = <<>>
               /\ pc' = "create"
               /\ UNCHANGED <<tokenFile, tokenAtStart>>
    /\ UNCHANGED window
    /\ UNCHANGED <<server, secrets, all_videos, video_ids, next_page_token, all_tags_raw>>

\* create_playlist, lines 138-143: create the playlist, select the videos
CreatePlaylist ==
    /\ task = "playlist" /\ pc = "create"
    /\ \E ok \in BOOLEAN :
         /\ calls' = Append(calls, Call("playlists.insert", <<>>, ok))
         /\ IF ok
            THEN LET to_add == VideosToAdd(all_videos, tag)
                 IN /\ videos_to_add' = to_add
                    /\ IF to_add = <<>>
                       THEN /\ signals' = signals \o <<Progress(10), PlaylistCreated(0), Finished>>
                            /\ pc' = "done"
                       ELSE /\ signals' = signals \o <<Progress(10), Progress(20)>>
                            /\ pc' = "insert"
            ELSE /\ signals' = Raised(Append(signals, Progress(10)), "Failed to create playlist")
                 /\ pc' = "done"
                 /\ UNCHANGED videos_to_add
    /\ UNCHANGED window
    /\ UNCHANGED <<server, files, tokenAtStart, credentials, all_videos, task, video_ids,
                   next_page_token, i, all_tags_raw, tag>>

\* one iteration of the insertion loop (lines 144-146); behind the last
\* insertion playlist_created (line 147)
InsertItem ==
    /\ task = "playlist" /\ pc = "insert"
    /\ \E ok \in BOOLEAN :
         /\ calls' = Append(calls, Call("playlistItems.insert", <<videos_to_add[i + 1]>>, ok))
         /\ IF ok
            THEN LET sigs == Append(signals, Progress(InsertProgress(i, Len(videos_to_add))))
                 IN /\ i' = i + 1
                    /\ IF i + 1 < Len(videos_to_add)
                       THEN /\ signals' = sigs
                            /\ pc' = "insert"
                       ELSE /\ signals' = sigs \o <<PlaylistCreated(Len(videos_to_add)), Finished>>
                            /\ pc' = "done"
            ELSE /\ signals' = Raised(signals, "Failed to create playlist")
                 /\ pc' = "done"
                 /\ UNCHANGED i
    /\ UNCHANGED window
    /\ UNCHANGED <<server, files, tokenAtStart, credentials, all_videos, task, video_ids,
                   next_page_token, all_tags_raw, tag, videos_to_add>>

\* between two tasks the access token of a valid token.json runs out
TokenExpires ==
    /\ pc = "done"
    /\ tokenFile.kind = "token" /\ tokenFile.valid
    /\ tokenFile' = TokenJson(Creds(FALSE, TRUE, tokenFile.refresh_token))
    /\ UNCHANGED window
    /\ UNCHANGED <<server, secrets, credentials, all_videos, task, pc, video_ids,
                   next_page_token, i, all_tags_raw, tag, videos_to_add, signals, calls,
                   tokenAtStart>>

Next ==
    \/ AnalysisAuthenticate
    \/ FetchChannel
    \/ FetchPage
    \/ FetchBatch
    \/ PlaylistAuthenticate
    \/ CreatePlaylist
    \/ InsertItem
    \/ TokenExpires

Spec == Init /\ [][Next]_vars

\* the analysis alone, over the channels with arbitrary tag lists
NextAnalysis ==
    \/ AnalysisAuthenticate
    \/ FetchChannel
    \/ FetchPage
    \/ FetchBatch

SpecAnalysis == InitTagged /\ [][NextAnalysis]_vars

----------------------------------------------------------------------------
(* Shape of the state *)

TypeOK ==
    /\ task \in {"none", "analysis", "playlist"}
    /\ pc \in {"start", "channels", "pages", "batches", "create", "insert", "done"}
    /\ i \in 0..(MaxVideos + BatchSize)
    /\ Len(video_ids) <= Len(uploads)
    /\ secrets \in BOOLEAN

----------------------------------------------------------------------------
(* Observations on the logs of the current run *)

SigCount(kind) == Cardinality({j \in 1..Len(signals) : signals[j].sig = kind})
CallCount(api) == Cardinality({j \in 1..Len(calls) : calls[j].api = api})
ErrorWith(m) == \E j \in 1..Len(signals) : signals[j] = Error(m)
LastSignal == signals[Len(signals)]

\* the payload of the tags_ready signal of a finished analysis
HasTagsReady == task = "analysis" /\ SigCount("tags_ready") = 1
ReadyTags ==
    signals[CHOOSE j \in 1..Len(signals) : signals[j].sig = "tags_ready"].tags

\* the tags of the channel's videos in fetch order, as the server holds them
RECURSIVE ServerTagStream(_)
ServerTagStream(ids) ==
    IF ids = <<>> THEN <<>>
    ELSE ServerTagStream(SubSeq(ids, 1, Len(ids) - 1))
           \o SnippetTags(tagsOf[ids[Len(ids)]])

\* position of the first tag of stream whose lower-case form is k
FirstSeen(stream, k) ==
    CHOOSE j \in 1..Len(stream) :
        /\ Lower(stream[j]) = k
        /\ \A h \in 1..(j - 1) : Lower(stream[h]) # k

\* _get_all_video_ids has returned in the current analysis
PagesFetched ==
    /\ task = "analysis"
    /\ \E j \in 1..Len(calls) :
         /\ calls[j].api = "playlistItems.list" /\ calls[j].ok
         /\ \A h \in 1..Len(calls) : calls[h].api = "playlistItems.list" => h <= j
         /\ PageNextToken(uploads, calls[j].arg[1]) = NoToken

----------------------------------------------------------------------------
(* C1: page requests and ids of _get_all_video_ids *)

\* C1 as stated: for every n >= 0, n = 0 included, _get_all_video_ids issues
\* exactly ceil(n/50) page requests and returns the n ids in page order.
C1_CeilRequests ==
    PagesFetched =>
        /\ video_ids = uploads
        /\ CallCount("playlistItems.list") = CeilDiv(Len(uploads), PageSize)

\* C1 amended: the loop asks for a page before it looks at the token, so it
\* issues max(1, ceil(n/50)) page requests (one for n = 0) and returns
\* exactly the n ids in page order, repeated ids included.
C1_PageRequests ==
    PagesFetched =>
        /\ video_ids = uploads
        /\ CallCount("playlistItems.list") = Max(1, CeilDiv(Len(uploads), PageSize))

\* three pages were fetched from a playlist whose last entry repeats the first
C1_Witness ==
    /\ PagesFetched
    /\ Len(video_ids) > 2 * PageSize
    /\ video_ids[Len(video_ids)] = video_ids[1]
    /\ CallCount("playlistItems.list") = 3

----------------------------------------------------------------------------
(* C2: the count of a tag *)

\* the videos of the cache whose lower-cased tag list contains k
VideosWith(k) == {j \in 1..Len(all_videos) : InList(k, all_videos[j].tags)}

\* C2: the count run_analysis reports for a tag equals the number of cached
\* video records whose lower-cased tag list contains the lower-cased tag.
C2_CountIsVideoCount ==
    HasTagsReady =>
        \A j \in 1..Len(ReadyTags) :
            ReadyTags[j].count = Cardinality(VideosWith(Lower(ReadyTags[j].tag)))

----------------------------------------------------------------------------
(* C3: the display form of a tag *)

----------------------------------------------------------------------------
(* C4: the order of the reported tags *)

\* C4: the reported sequence is descending by count, and tags with equal
\* counts keep the order in which their lower-case forms were first seen.
C4_SortedStable ==
    HasTagsReady =>
        LET stream == ServerTagStream(uploads)
        IN \A a \in 1..Len(ReadyTags), b \in 1..Len(ReadyTags) :
              a < b =>
                /\ ReadyTags[a].count >= ReadyTags[b].count
                /\ ReadyTags[a].count = ReadyTags[b].count =>
                     FirstSeen(stream, Lower(ReadyTags[a].tag))
                       < FirstSeen(stream, Lower(ReadyTags[b].tag))

\* three tags: a tag seen later has the highest count and moved to the
\* front, the two tags of equal count behind it kept their order
C4_Witness ==
    /\ HasTagsReady
    /\ Len(ReadyTags) = 3
    /\ ReadyTags[1].count > ReadyTags[2].count
    /\ ReadyTags[2].count = ReadyTags[3].count
    /\ FirstSeen(ServerTagStream(uploads), Lower(ReadyTags[2].tag)) = 1
    /\ FirstSeen(ServerTagStream(uploads), Lower(ReadyTags[1].tag)) = 2

----------------------------------------------------------------------------
(* C5: create_playlist without a matching video *)

PlaylistWasCreated == \E j \in 1..Len(calls) : calls[j] = Call("playlists.insert", <<>>, TRUE)

\* C5: when no cached video record contains the target tag, create_playlist
\* issues no insertion call, and once the playlist is created it reports
\* playlist_created with count 0 and no error.
C5_ZeroMatches ==
    (task = "playlist" /\ VideosWith(Lower(tag)) = {}) =>
        /\ CallCount("playlistItems.insert") = 0
        /\ PlaylistWasCreated =>
             /\ pc = "done"
             /\ SubSeq(signals, Len(signals) - 1, Len(signals))
                  = <<PlaylistCreated(0), Finished>>
             /\ SigCount("playlist_created") = 1
             /\ SigCount("error") = 0

\* a filled cache without the target tag, and the empty playlist reported
C5_Witness ==
    /\ task = "playlist"
    /\ Len(all_videos) > BatchSize
    /\ VideosWith(Lower(tag)) = {}
    /\ PlaylistWasCreated
    /\ SigCount("playlist_created") = 1

----------------------------------------------------------------------------
(* C6: a failing insertion *)

FailedInsertAt(j) ==
    j \in 1..Len(calls) /\ calls[j].api = "playlistItems.insert" /\ ~calls[j].ok

\* C6: a failed insertion call is the last call of its run; the run ends
\* with an error and without playlist_created.
C6_StopOnFirstError ==
    \A j \in 1..Len(calls) :
        FailedInsertAt(j) =>
            /\ j = Len(calls)
            /\ pc = "done"
            /\ SigCount("playlist_created") = 0
            /\ SigCount("error") = 1
            /\ ErrorWith("Failed to create playlist")

\* three candidates, the first inserted, the second failed
C6_Witness ==
    /\ task = "playlist"
    /\ Len(videos_to_add) = 3
    /\ CallCount("playlistItems.insert") = 2
    /\ FailedInsertAt(Len(calls))
    /\ calls[Len(calls) - 1].api = "playlistItems.insert"
    /\ calls[Len(calls) - 1].ok

----------------------------------------------------------------------------
(* C7: a failing token refresh *)

RefreshHasFailed == \E j \in 1..Len(calls) : calls[j] = Call("oauth.refresh", <<>>, FALSE)

\* C7: after a failed refresh the token file is gone, the run has emitted
\* the refresh error and finished, the worker has no credential and no call
\* went to the data API.
C7_RefreshFailure ==
    RefreshHasFailed =>
        /\ tokenFile = AbsentFile
        /\ credentials = NoCreds
        /\ pc = "done"
        /\ signals = <<Progress(0), Error("Token refresh failed"), Finished>>
        /\ \A j \in 1..Len(calls) : calls[j].api \notin ApiNames

\* an analysis found an expired token with a refresh token, the refresh failed
C7_Witness ==
    /\ task = "analysis"
    /\ RefreshHasFailed
    /\ tokenAtStart = TokenJson(Creds(FALSE, TRUE, TRUE))

----------------------------------------------------------------------------
(* C8: one outcome per run, then finished *)

Outcomes == SigCount("error") + SigCount("tags_ready") + SigCount("playlist_created")

\* C8: a finished run has emitted exactly one error or result signal and
\* then, as its last signal, finished once; a running task has emitted none
\* of them yet.
C8_OneOutcome ==
    /\ pc = "done" =>
         /\ Outcomes = 1
         /\ SigCount("finished") = 1
         /\ LastSignal = Finished
    /\ pc # "done" =>
         /\ Outcomes = 0
         /\ SigCount("finished") = 0

\* a playlist run whose authentication returned False after its own error
C8_Witness ==
    /\ task = "playlist"
    /\ pc = "done"
    /\ signals = <<Progress(0), Error("Token refresh failed"), Finished>>

----------------------------------------------------------------------------
(* C9: the range of the progress values *)

\* C9: every progress value lies in 0..100, and the values of the batch
\* loop of run_analysis (the signals behind progress 40) lie in 40..90.
C9_ProgressInRange ==
    /\ \A j \in 1..Len(signals) :
         signals[j].sig = "progress" => signals[j].val \in 0..100
    /\ task = "analysis" =>
         \A j \in 5..(4 + i \div BatchSize) :
             j <= Len(signals) /\ signals[j].sig = "progress" /\ signals[j].val \in 40..90

----------------------------------------------------------------------------
(* C10: an absent or corrupt token file *)

\* C10: when authenticate finds token.json absent or unparseable and the
\* client secrets are present, the run goes through the interactive flow.
C10_CorruptTokenReauth ==
    (task # "none" /\ tokenAtStart.kind \in {"absent", "corrupt"} /\ secrets) =>
        \E j \in 1..Len(calls) : calls[j].api = "oauth.flow"

----------------------------------------------------------------------------
(* C11: no usable token and no client secrets *)

\* MainWindow.show_error: the text of the dialog for an error message
ShowError(message) ==
    IF message = "CLIENT_SECRETS_MISSING"
    THEN "Missing client_secrets.json file."
    ELSE message

\* authenticate found no token it could use or refresh
NoUsableToken ==
    \/ tokenAtStart.kind = "absent"
    \/ tokenAtStart.kind = "token" /\ ~tokenAtStart.valid /\ ~tokenAtStart.refresh_token

\* C11: with no usable token and client_secrets.json absent, the run emits
\* CLIENT_SECRETS_MISSING as its only error (shown with its own dialog
\* text), starts no interactive flow, leaves token.json as it was, sets no
\* credential and finishes.
C11_SecretsMissing ==
    (task # "none" /\ NoUsableToken /\ ~secrets) =>
        /\ signals = <<Progress(0), Error("CLIENT_SECRETS_MISSING"), Finished>>
        /\ ShowError(signals[2].msg) = "Missing client_secrets.json file."
        /\ ShowError(signals[2].msg) # ShowError("Analysis failed")
        /\ calls = <<>>
        /\ tokenFile = tokenAtStart
        /\ credentials = NoCreds
        /\ pc = "done"

\* an analysis found an expired token without a refresh token and no secrets
C11_Witness ==
    /\ task = "analysis"
    /\ tokenAtStart = TokenJson(Creds(FALSE, TRUE, FALSE))
    /\ ~secrets
    /\ ErrorWith("CLIENT_SECRETS_MISSING")

----------------------------------------------------------------------------
(* C12: no retry in run_analysis *)

FailedApiCallAt(j) ==
    j \in 1..Len(calls) /\ calls[j].api \in ApiNames /\ ~calls[j].ok

\* C12: in an analysis a failed call to the data API is the last call of the
\* run; the run is over and has not delivered tags_ready.
C12_NoRetry ==
    task = "analysis" =>
        \A j \in 1..Len(calls) :
            FailedApiCallAt(j) =>
                /\ j = Len(calls)
                /\ pc = "done"
                /\ SigCount("tags_ready") = 0
                /\ ErrorWith("Analysis failed")

\* the third metadata request of an analysis failed
C12_Witness ==
    /\ task = "analysis"
    /\ FailedApiCallAt(Len(calls))
    /\ calls[Len(calls)].api = "videos.list"
    /\ CallCount("videos.list") = 3
    /\ CallCount("playlistItems.list") = 3

----------------------------------------------------------------------------
(* C13: a successful create_playlist *)

\* the cached records, in cache order, whose tag list contains Lower(tag)
MatchingRecords == SelectSeq(all_videos, LAMBDA v : InList(Lower(tag), v.tags))

\* the insertion calls of the run, in order
InsertCalls == SelectSeq(calls, LAMBDA c : c.api = "playlistItems.insert")

PlaylistSucceeded == task = "playlist" /\ SigCount("playlist_created") = 1

\* C13: a successful create_playlist has issued the playlist creation before
\* any insertion, exactly one successful insertion per matching record, in
\* cache order, and reports their number.
C13_OnePerCandidate ==
    PlaylistSucceeded =>
        /\ Len(InsertCalls) = Len(MatchingRecords)
        /\ \A j \in 1..Len(InsertCalls) :
             InsertCalls[j] = Call("playlistItems.insert", <<MatchingRecords[j].id>>, TRUE)
        /\ CallCount("playlists.insert") = 1
        /\ \A j \in 1..Len(calls) :
             calls[j].api = "playlistItems.insert" =>
                 \E h \in 1..(j - 1) : calls[h] = Call("playlists.insert", <<>>, TRUE)
        /\ \E j \in 1..Len(signals) :
             signals[j] = PlaylistCreated(Len(MatchingRecords))

\* a mixed-case target matched four records, one video among them twice
C13_Witness ==
    /\ PlaylistSucceeded
    /\ tag = "Cats"
    /\ Len(MatchingRecords) = 4
    /\ MatchingRecords[4].id = MatchingRecords[1].id
    /\ Len(InsertCalls) = 4

----------------------------------------------------------------------------
(* C14: the video cache after a failed metadata batch *)

\* the analysis ended on a failed metadata request that followed a successful one
FailedAfterFirstBatch ==
    /\ task = "analysis"
    /\ pc = "done"
    /\ CallCount("videos.list") >= 2
    /\ FailedApiCallAt(Len(calls))
    /\ calls[Len(calls)].api = "videos.list"

\* C14: after an analysis that fails in a metadata batch following a
\* successful one, the worker's video cache holds no record of that run.
C14_CacheDiscarded == FailedAfterFirstBatch => all_videos = <<>>

----------------------------------------------------------------------------
(* C15: the metadata requests of a completed analysis *)

\* the metadata requests of the run, in order
MetadataCalls == SelectSeq(calls, LAMBDA c : c.api = "videos.list")

\* the ids a sequence of requests carries, in order
RECURSIVE IdsCarried(_)
IdsCarried(cs) == IF cs = <<>> THEN <<>> ELSE Head(cs).arg \o IdsCarried(Tail(cs))

\* C15: a completed analysis of n ids has issued ceil(n/50) metadata
\* requests, the k-th (from 0) carrying ids 50k .. 50k+49 in order, so that
\* the requests together carry every id exactly once; with no id it issues
\* no metadata request and still reports an empty tag list.
C15_BatchSlices ==
    (task = "analysis" /\ HasTagsReady) =>
        LET n == Len(video_ids)
        IN /\ Len(MetadataCalls) = CeilDiv(n, BatchSize)
           /\ \A k \in 0..(Len(MetadataCalls) - 1) :
                LET req == MetadataCalls[k + 1]
                IN /\ req.ok
                   /\ Len(req.arg) = Min(BatchSize, n - BatchSize * k)
                   /\ Len(req.arg) \in 1..BatchSize
                   /\ \A j \in 1..Len(req.arg) : req.arg[j] = video_ids[BatchSize * k + j]
           /\ IdsCarried(MetadataCalls) = video_ids
           /\ (n = 0 => ReadyTags = <<>>)

\* 101 ids went out in three requests, the last one carrying a single id
C15_Witness ==
    /\ task = "analysis" /\ HasTagsReady
    /\ Len(video_ids) = 2 * BatchSize + 1
    /\ Len(MetadataCalls) = 3
    /\ Len(MetadataCalls[3].arg) = 1

\* an analysis of a channel without videos completed with an empty tag list
C15_WitnessEmpty ==
    /\ task = "analysis" /\ HasTagsReady
    /\ video_ids = <<>>
    /\ MetadataCalls = <<>>
    /\ ReadyTags = <<>>

----------------------------------------------------------------------------
(* The window: MainWindow, its modal dialogs, and the signals of its workers.
   A worker's run appears here as the signals it posts to the window's thread
   (one outcome, then finished); progress signals are left out, update_status
   only writes the progress bar and the status label. *)

MaxTasks == 3
MaxRows == 2

worker == <<uploads, tagsOf, tokenFile, secrets, credentials, all_videos, task,
            pc, video_ids, next_page_token, i, all_tags_raw, tag,
            videos_to_add, signals, calls, tokenAtStart>>

\* a signal posted to the window's thread
Posted(ev, t, n) == [ev |-> ev, task |-> t, rows |-> n]

\* the outcomes a worker can emit (lines 130-131, lines 142, 147, 148)
OutcomesOf(kind, t) ==
    IF kind = "analysis"
    THEN {Posted("tags_ready", t, n) : n \in 0..MaxRows} \cup {Posted("error", t, 0)}
    ELSE {Posted("playlist_created", t, 0), Posted("error", t, 0)}

\* _set_ui_enabled(enabled) with row sel selected: the value both widgets get
set_ui_enabled(enabled, sel) == enabled /\ sel # 0

\* on_tag_selected with row sel selected (0 for none)
on_tag_selected(sel) ==
    IF sel = 0
    THEN UNCHANGED <<action_button, playlist_card>>
    ELSE /\ playlist_card' = set_ui_enabled(TRUE, sel)
         /\ action_button' = set_ui_enabled(TRUE, sel)

\* the end of apply_theme (line 328)
apply_theme == IF selected # 0 THEN on_tag_selected(selected)
               ELSE UNCHANGED <<action_button, playlist_card>>

\* the worker of task t emits its outcome
worker_outcome ==
    /\ \E t \in 1..Len(tasks) :
         /\ tasks[t].st = "running"
         /\ \E e \in OutcomesOf(tasks[t].kind, t) : queue' = Append(queue, e)
         /\ tasks' = [tasks EXCEPT ![t].st = "outcome"]
    /\ UNCHANGED <<dialogs, rows, selected, action_button, playlist_card, is_dark,
                   is_tall_layout>>
    /\ UNCHANGED worker

\* the worker of task t emits finished (lines 132, 149)
worker_finished ==
    /\ \E t \in 1..Len(tasks) :
         /\ tasks[t].st = "outcome"
         /\ queue' = Append(queue, Posted("finished", t, 0))
         /\ tasks' = [tasks EXCEPT ![t].st = "emitted"]
    /\ UNCHANGED <<dialogs, rows, selected, action_button, playlist_card, is_dark,
                   is_tall_layout>>
    /\ UNCHANGED worker

\* worker.finished reaches worker_thread.quit (line 371)
thread_quit ==
    /\ queue # <<>> /\ Head(queue).ev = "finished"
    /\ tasks' = [tasks EXCEPT ![Head(queue).task].st = "quit"]
    /\ queue' = Tail(queue)
    /\ UNCHANGED <<dialogs, rows, selected, action_button, playlist_card, is_dark,
                   is_tall_layout>>
    /\ UNCHANGED worker

\* the thread of task t ends and emits its own finished signal
thread_finished ==
    /\ \E t \in 1..Len(tasks) :
         /\ tasks[t].st = "quit"
         /\ queue' = Append(queue, Posted("thread_finished", t, 0))
         /\ tasks' = [tasks EXCEPT ![t].st = "over"]
    /\ UNCHANGED <<dialogs, rows, selected, action_button, playlist_card, is_dark,
                   is_tall_layout>>
    /\ UNCHANGED worker

\* worker_thread.finished reaches lambda: self._set_ui_enabled(True) (line 371)
thread_finished_handler ==
    /\ queue # <<>> /\ Head(queue).ev = "thread_finished"
    /\ queue' = Tail(queue)
    /\ action_button' = set_ui_enabled(TRUE, selected)
    /\ playlist_card' = set_ui_enabled(TRUE, selected)
    /\ UNCHANGED <<tasks, dialogs, rows, selected, is_dark, is_tall_layout>>
    /\ UNCHANGED worker

\* tags_ready reaches populate_tags_table: setRowCount(0) drops the selection,
\* on_tag_selected then returns at line 360
populate_tags_table ==
    /\ queue # <<>> /\ Head(queue).ev = "tags_ready"
    /\ queue' = Tail(queue)
    /\ rows' = Head(queue).rows
    /\ selected' = 0
    /\ on_tag_selected(0)
    /\ UNCHANGED <<tasks, dialogs, is_dark, is_tall_layout>>
    /\ UNCHANGED worker

\* error reaches show_error, which opens its message box (lines 347-348)
show_error ==
    /\ queue # <<>> /\ Head(queue).ev = "error"
    /\ queue' = Tail(queue)
    /\ dialogs' = Append(dialogs, "error")
    /\ UNCHANGED <<tasks, rows, selected, action_button, playlist_card, is_dark,
                   is_tall_layout>>
    /\ UNCHANGED worker

\* playlist_created reaches on_playlist_created, which opens its message box
on_playlist_created ==
    /\ queue # <<>> /\ Head(queue).ev = "playlist_created"
    /\ queue' = Tail(queue)
    /\ dialogs' = Append(dialogs, "info")
    /\ UNCHANGED <<tasks, rows, selected, action_button, playlist_card, is_dark,
                   is_tall_layout>>
    /\ UNCHANGED worker

\* the user closes the innermost message box; behind the box of show_error
\* line 349 runs
close_message ==
    /\ dialogs # <<>> /\ dialogs[Len(dialogs)] \in {"error", "info", "warning"}
    /\ dialogs' = SubSeq(dialogs, 1, Len(dialogs) - 1)
    /\ IF dialogs[Len(dialogs)] = "error"
       THEN /\ action_button' = set_ui_enabled(TRUE, selected)
            /\ playlist_card' = set_ui_enabled(TRUE, selected)
       ELSE UNCHANGED <<action_button, playlist_card>>
    /\ UNCHANGED <<tasks, queue, rows, selected, is_dark, is_tall_layout>>
    /\ UNCHANGED worker

\* the user selects another row of the table (itemSelectionChanged, line 209)
select_tag ==
    /\ dialogs = <<>>
    /\ \E r \in 1..rows :
         /\ r # selected
         /\ selected' = r
         /\ on_tag_selected(r)
    /\ UNCHANGED <<tasks, queue, dialogs, rows, is_dark, is_tall_layout>>
    /\ UNCHANGED worker

\* the user takes the selection away (itemSelectionChanged, line 209)
deselect_tag ==
    /\ dialogs = <<>>
    /\ selected # 0
    /\ selected' = 0
    /\ on_tag_selected(0)
    /\ UNCHANGED <<tasks, queue, dialogs, rows, is_dark, is_tall_layout>>
    /\ UNCHANGED worker

\* the user flips the theme toggle (lines 290-291)
on_theme_toggled ==
    /\ dialogs = <<>>
    /\ is_dark' = ~is_dark
    /\ apply_theme
    /\ UNCHANGED <<tasks, queue, dialogs, rows, selected, is_tall_layout>>
    /\ UNCHANGED worker

\* the user resizes the window (lines 286-287, 249-285)
resizeEvent ==
    /\ dialogs = <<>>
    /\ \E is_currently_tall \in BOOLEAN :
         IF is_currently_tall = is_tall_layout
         THEN UNCHANGED <<is_tall_layout, action_button, playlist_card>>
         ELSE /\ is_tall_layout' = is_currently_tall
              /\ apply_theme
    /\ UNCHANGED <<tasks, queue, dialogs, rows, selected, is_dark>>
    /\ UNCHANGED worker

\* the user clicks the enabled Create Playlist button (lines 330-334), with
\* the name field blank or not, up to the opening of the dialog
confirm_and_create_playlist ==
    /\ dialogs = <<>>
    /\ action_button
    /\ \E name_blank \in BOOLEAN :
         dialogs' = Append(dialogs, IF selected = 0 \/ name_blank THEN "warning"
                                    ELSE "confirm")
    /\ UNCHANGED <<tasks, queue, rows, selected, action_button, playlist_card, is_dark,
                   is_tall_layout>>
    /\ UNCHANGED worker

\* the user answers No in the confirmation dialog (line 334)
confirm_no ==
    /\ dialogs # <<>> /\ dialogs[Len(dialogs)] = "confirm"
    /\ dialogs' = SubSeq(dialogs, 1, Len(dialogs) - 1)
    /\ UNCHANGED <<tasks, queue, rows, selected, action_button, playlist_card, is_dark,
                   is_tall_layout>>
    /\ UNCHANGED worker

\* the user answers Yes in the confirmation dialog: start_playlist_creation
\* (lines 335-338)
start_playlist_creation ==
    /\ dialogs # <<>> /\ dialogs[Len(dialogs)] = "confirm"
    /\ Len(tasks) < MaxTasks
    /\ dialogs' = SubSeq(dialogs, 1, Len(dialogs) - 1)
    /\ action_button' = set_ui_enabled(FALSE, selected)
    /\ playlist_card' = set_ui_enabled(FALSE, selected)
    /\ tasks' = Append(tasks, Task("playlist", "running"))
    /\ UNCHANGED <<queue, rows, selected, is_dark, is_tall_layout>>
    /\ UNCHANGED worker

\* a window in front of a worker model at rest
InitWindow ==
    /\ ChannelIs(SmallChannel(<<>>))
    /\ tokenFile = TokenJson(Creds(TRUE, FALSE, TRUE))
    /\ secrets = TRUE
    /\ WorkerInit
    /\ WindowInit

NextWindow ==
    \/ worker_outcome
    \/ worker_finished
    \/ thread_quit
    \/ thread_finished
    \/ thread_finished_handler
    \/ populate_tags_table
    \/ show_error
    \/ on_playlist_created
    \/ close_message
    \/ select_tag
    \/ deselect_tag
    \/ on_theme_toggled
    \/ resizeEvent
    \/ confirm_and_create_playlist
    \/ confirm_no
    \/ start_playlist_creation

SpecWindow == InitWindow /\ [][NextWindow]_vars

\* the tasks whose finished signal the window has not handled yet
RunningTasks == {t \in 1..Len(tasks) : tasks[t].st \in {"running", "outcome", "emitted"}}

\* C16: at most one task runs at a time, and while a task runs (from its
\* start until its finished signal is handled) the Create Playlist button is
\* disabled.
C16_OneTaskAtATime ==
    /\ Cardinality(RunningTasks) <= 1
    /\ RunningTasks # {} => ~action_button

====
